---- MODULE Spec2Model ----
(***************************************************************************)
(* ARISS article generator (src/ariss-article-generator.py).               *)
(*                                                                         *)
(* The newsletter text, its lines and every extracted field are strings;   *)
(* the Python string methods the parser uses (in, split, strip, lower,     *)
(* startswith, join, re.match, re.split on a literal) are operators on     *)
(* strings, computed character by character.  main() is a state machine:   *)
(* argument validation, obtaining the text, the section loop and the line  *)
(* loop of parse_contacts, the question pass, the article loop and the     *)
(* final report.                                                           *)
(***************************************************************************)
EXTENDS Integers, Sequences, FiniteSets, TLC

(***************************************************************************)
(* Python str operations.                                                  *)
(***************************************************************************)
Char(s, i) == SubSeq(s, i, i)

Whitespace == {" ", "\t", "\n", "\r"}

Digits == "0123456789"

UpperCase == "ABCDEFGHIJKLMNOPQRSTUVWXYZ"

LowerCase == "abcdefghijklmnopqrstuvwxyz"

\* s[i-1:] in Python terms: the text from position i (1-based) to the end.
From(s, i) == SubSeq(s, i, Len(s))

\* s.startswith(p)
StartsWith(s, p) == Len(p) <= Len(s) /\ SubSeq(s, 1, Len(p)) = p

\* The least element of a non-empty set of numbers.
Least(S) == CHOOSE i \in S : \A j \in S : i <= j

\* s.find(p, start - 1) + 1: the position of the first occurrence of p in s
\* at or after position start, 0 if none.
FindFrom(s, p, start) ==
    LET hits == {i \in start..(Len(s) - Len(p) + 1) : SubSeq(s, i, i + Len(p) - 1) = p}
    IN  IF hits = {} THEN 0 ELSE Least(hits)

Find(s, p) == FindFrom(s, p, 1)

\* p in s
Contains(s, p) == Find(s, p) # 0

\* s.split(sep), sep non-empty: the texts between the non-overlapping
\* occurrences of sep taken leftmost first.  re.split on a pattern that is a
\* literal without groups yields the same list.
RECURSIVE SplitFrom(_, _, _)
SplitFrom(s, sep, start) ==
    LET i == FindFrom(s, sep, start)
    IN  IF i = 0 THEN <<SubSeq(s, start, Len(s))>>
        ELSE <<SubSeq(s, start, i - 1)>> \o SplitFrom(s, sep, i + Len(sep))

Split(s, sep) == SplitFrom(s, sep, 1)

\* sep.join(parts)
RECURSIVE JoinFrom(_, _, _)
JoinFrom(parts, sep, k) ==
    IF k > Len(parts) THEN ""
    ELSE IF k = Len(parts) THEN parts[k]
    ELSE parts[k] \o sep \o JoinFrom(parts, sep, k + 1)

Join(parts, sep) == JoinFrom(parts, sep, 1)

\* s.strip()
Strip(s) ==
    LET n == Len(s)
        lead == {i \in 1..n : Char(s, i) \notin Whitespace}
        trail == {k \in 0..(n - 1) : Char(s, n - k) \notin Whitespace}
    IN  IF lead = {} THEN "" ELSE SubSeq(s, Least(lead), n - Least(trail))

UpperLetters == {Char(UpperCase, i) : i \in 1..Len(UpperCase)}

LowerOf == [c \in UpperLetters |-> Char(LowerCase, Find(UpperCase, c))]

LowerChar(c) == IF c \in UpperLetters THEN LowerOf[c] ELSE c

\* s.lower()
Lower(s) == Join([i \in 1..Len(s) |-> LowerChar(Char(s, i))], "")

IsDigit(c) == Len(c) = 1 /\ Contains(Digits, c)

\* The number of leading decimal digits of s.
LeadingDigits(s) ==
    LET others == {i \in 1..Len(s) : ~IsDigit(Char(s, i))}
    IN  IF others = {} THEN Len(s) ELSE Least(others) - 1

AllDigits(s) == Len(s) > 0 /\ LeadingDigits(s) = Len(s)

\* int(s) for a string of decimal digits.
RECURSIVE ToNatUpTo(_, _)
ToNatUpTo(s, k) ==
    IF k = 0 THEN 0
    ELSE 10 * ToNatUpTo(s, k - 1) + (Find(Digits, Char(s, k)) - 1)

ToNat(s) == ToNatUpTo(s, Len(s))

\* str(n) for a natural number.
RECURSIVE NatToStr(_)
NatToStr(n) ==
    IF n < 10 THEN Char(Digits, n + 1)
    ELSE NatToStr(n \div 10) \o Char(Digits, (n % 10) + 1)

\* "%02d" and "%04d" of strftime.
RECURSIVE ZeroPad(_, _)
ZeroPad(s, w) == IF Len(s) >= w THEN s ELSE ZeroPad("0" \o s, w)

Pad2(n) == ZeroPad(NatToStr(n), 2)

Pad4(n) == ZeroPad(NatToStr(n), 4)

\* re.match(r'^\d+\.', s)
MatchesQuestionNumber(s) ==
    LET n == LeadingDigits(s) IN n >= 1 /\ n < Len(s) /\ Char(s, n + 1) = "."

(***************************************************************************)
(* Optional values: None is <<>>, a present value v is <<v>>.              *)
(***************************************************************************)
None == <<>>

Some(v) == <<v>>

(***************************************************************************)
(* Calendar arithmetic of datetime and zoneinfo.                           *)
(***************************************************************************)
IsLeap(y) == (y % 4 = 0 /\ y % 100 # 0) \/ y % 400 = 0

DaysInMonth(y, m) ==
    IF m = 2 THEN (IF IsLeap(y) THEN 29 ELSE 28)
    ELSE IF m \in {4, 6, 9, 11} THEN 30 ELSE 31

\* 0 = Monday ... 6 = Sunday, as datetime.weekday().
Weekday(y, m, d) ==
    LET t  == <<0, 3, 2, 5, 0, 3, 5, 1, 4, 6, 2, 4>>
        yy == IF m < 3 THEN y - 1 ELSE y
        sun0 == (yy + (yy \div 4) - (yy \div 100) + (yy \div 400) + t[m] + d) % 7
    IN  (sun0 + 6) % 7

\* The day of the month of the last Sunday of a 31-day month.
LastSunday(y, m) == 31 - ((Weekday(y, m, 31) + 1) % 7)

\* Europe/Paris since 1996: UTC+2 from 01:00 UTC on the last Sunday of March
\* to 01:00 UTC on the last Sunday of October, UTC+1 otherwise.
ParisOffset(dt) ==
    LET a == <<3, LastSunday(dt.year, 3), 1>>
        b == <<10, LastSunday(dt.year, 10), 1>>
        k == <<dt.month, dt.day, dt.hour>>
        Le(p, q) == \/ p[1] < q[1]
                    \/ p[1] = q[1] /\ p[2] < q[2]
                    \/ p[1] = q[1] /\ p[2] = q[2] /\ p[3] <= q[3]
    IN  IF Le(a, k) /\ ~Le(b, k) THEN 2 ELSE 1

\* contact.date_time.astimezone(ZoneInfo('Europe/Paris'))
ParisAstimezone(dt) ==
    LET h == dt.hour + ParisOffset(dt)
        over == h >= 24
        lastDay == dt.day = DaysInMonth(dt.year, dt.month)
        lastMonth == dt.month = 12
    IN  [dt EXCEPT
           !.hour  = IF over THEN h - 24 ELSE h,
           !.day   = IF ~over THEN dt.day ELSE IF lastDay THEN 1 ELSE dt.day + 1,
           !.month = IF over /\ lastDay THEN (IF lastMonth THEN 1 ELSE dt.month + 1)
                     ELSE dt.month,
           !.year  = IF over /\ lastDay /\ lastMonth THEN dt.year + 1 ELSE dt.year,
           !.tzinfo = "Europe/Paris"]

MonthNamesEn ==
    <<"January", "February", "March", "April", "May", "June", "July",
      "August", "September", "October", "November", "December">>

\* dateutil matches month names whatever their case.
MonthWordsEn == [i \in 1..12 |-> Lower(MonthNamesEn[i])]

DayNamesEn ==
    <<"Monday", "Tuesday", "Wednesday", "Thursday", "Friday", "Saturday", "Sunday">>

\* The fr_FR names of strftime, accented letters written without accent.
MonthNamesFr ==
    <<"janvier", "fevrier", "mars", "avril", "mai", "juin", "juillet",
      "aout", "septembre", "octobre", "novembre", "decembre">>

DayNamesFr ==
    <<"lundi", "mardi", "mercredi", "jeudi", "vendredi", "samedi", "dimanche">>

ValidDate(y, m, d) ==
    y >= 1 /\ y <= 9999 /\ m >= 1 /\ m <= 12 /\ d >= 1 /\ d <= DaysInMonth(y, m)

\* dateutil's parser.parse on the date texts of the newsletter lines modelled
\* here, "<day> <English month name> <year> <HH>:<MM>": None stands for the
\* ParserError (a ValueError) it raises on an empty text, an unknown word such
\* as a French month name, or a day the month does not have.
DateutilParse(s) ==
    LET tok == Split(s, " ")
    IN  IF Len(tok) # 4 THEN None
        ELSE LET hm == Split(tok[4], ":")
                 word == Lower(tok[2])
                 mi == CHOOSE i \in 0..12 :
                          \/ i > 0 /\ MonthWordsEn[i] = word
                          \/ i = 0 /\ \A j \in 1..12 : MonthWordsEn[j] # word
             IN  IF /\ AllDigits(tok[1]) /\ Len(tok[1]) <= 2
                    /\ mi # 0
                    /\ AllDigits(tok[3]) /\ Len(tok[3]) = 4
                    /\ Len(hm) = 2
                    /\ AllDigits(hm[1]) /\ Len(hm[1]) <= 2
                    /\ AllDigits(hm[2]) /\ Len(hm[2]) = 2
                    /\ ValidDate(ToNat(tok[3]), mi, ToNat(tok[1]))
                    /\ ToNat(hm[1]) <= 23 /\ ToNat(hm[2]) <= 59
                 THEN Some([year |-> ToNat(tok[3]), month |-> mi,
                            day |-> ToNat(tok[1]), hour |-> ToNat(hm[1]),
                            minute |-> ToNat(hm[2]), second |-> 0,
                            tzinfo |-> "naive"])
                 ELSE None

\* datetime.strptime(date_str, "%d/%m/%Y") inside parse_date: None stands for
\* the ValueError parse_date raises.
parse_date(date_str) ==
    LET p == Split(date_str, "/")
    IN  IF /\ Len(p) = 3
           /\ AllDigits(p[1]) /\ Len(p[1]) <= 2
           /\ AllDigits(p[2]) /\ Len(p[2]) <= 2
           /\ AllDigits(p[3]) /\ Len(p[3]) = 4
           /\ ValidDate(ToNat(p[3]), ToNat(p[2]), ToNat(p[1]))
        THEN Some([year |-> ToNat(p[3]), month |-> ToNat(p[2]), day |-> ToNat(p[1]),
                   hour |-> 0, minute |-> 0, second |-> 0, tzinfo |-> "naive"])
        ELSE None

\* datetime.date(): the calendar date of a datetime.
DateOf(dt) == <<dt.year, dt.month, dt.day>>

(***************************************************************************)
(* ArissContact and the line rules of parse_contacts.                      *)
(***************************************************************************)
ArissContact ==
    [school |-> "", location |-> "", callsign |-> "", frequency |-> "",
     astronaut |-> "", astronaut_callsign |-> "", date_time |-> None,
     questions |-> <<>>, livestream |-> "", elevation |-> "",
     contact_type |-> "", mentor |-> ""]

\* The result of one line: the contact as the line leaves it, the exception
\* that leaves parse_contacts ("" when none does) and what the line prints.
Result(c, exc, printed) == [contact |-> c, exc |-> exc, printed |-> printed]

\* The first rule of the if/elif chain that takes the line.
RuleOf(line) ==
    LET low == Lower(line)
    IN  IF Contains(low, "direct via") \/ Contains(low, "telebridge via") THEN "via"
        ELSE IF Contains(low, "frequency") THEN "frequency"
        ELSE IF Contains(low, "scheduled crewmember is") THEN "crew"
        ELSE IF Contains(line, "Contact is go for:") THEN "go"
        ELSE IF Contains(line, "Watch for the Livestream at") THEN "livestream"
        ELSE IF Contains(line, "The ARISS mentor is") THEN "mentor"
        ELSE "none"

\* Faulty variant of ViaRule: the parts are stored as split, without strip().
ViaRuleUnstripped(c, line) ==
    LET school_info == Split(line, ",")
    IN  IF Len(school_info) < 3 THEN Result(c, "IndexError", <<>>)
        ELSE LET contact_type_info == Split(school_info[3], " via ")
             IN  Result([c EXCEPT !.school = school_info[1],
                                  !.location = school_info[2],
                                  !.contact_type = contact_type_info[1],
                                  !.callsign = IF Len(contact_type_info) > 1
                                               THEN contact_type_info[2] ELSE c.callsign],
                        "", <<>>)

ViaRule(c, line) ==
    LET school_info == Split(line, ",")
        c1 == [c EXCEPT !.school = Strip(school_info[1])]
    IN  IF Len(school_info) > 1
        THEN LET c2 == [c1 EXCEPT !.location = Strip(school_info[2])]
             IN  IF Len(school_info) < 3 THEN Result(c2, "IndexError", <<>>)
                 ELSE LET contact_type_info == Split(Strip(school_info[3]), " via ")
                          c3 == [c2 EXCEPT !.contact_type = Strip(contact_type_info[1])]
                      IN  IF Len(contact_type_info) > 1
                          THEN Result([c3 EXCEPT !.callsign = Strip(contact_type_info[2])],
                                      "", <<>>)
                          ELSE Result(c3, "", <<>>)
        ELSE Result(c1, "", <<>>)

\* line.split(word)[1].strip(): None stands for the IndexError of a line
\* that does not hold the word.
SecondPart(line, word) ==
    LET parts == Split(line, word)
    IN  IF Len(parts) < 2 THEN None ELSE Some(Strip(parts[2]))

FrequencyRule(c, line) ==
    LET v == SecondPart(line, "be")
    IN  IF v = None THEN Result(c, "IndexError", <<>>)
        ELSE Result([c EXCEPT !.frequency = v[1]], "", <<>>)

CrewRule(c, line) ==
    LET v == SecondPart(line, "is")
    IN  IF v = None THEN Result(c, "IndexError", <<>>)
        ELSE LET crew_info == v[1]
                 name_parts == Split(crew_info, " ")
             IN  IF Contains(crew_info, " ")
                 THEN Result([c EXCEPT
                                !.astronaut = Join(SubSeq(name_parts, 1, Len(name_parts) - 1), " "),
                                !.astronaut_callsign = name_parts[Len(name_parts)]],
                             "", <<>>)
                 ELSE Result([c EXCEPT !.astronaut = crew_info], "", <<>>)

\* Faulty variant of ElevationText: a comma that follows UTC is dropped too.
ElevationTextAfterComma(line) ==
    LET t == Strip(Split(line, "UTC")[2])
    IN  IF StartsWith(t, ",") THEN Strip(From(t, 2)) ELSE t

\* line.split('UTC')[1].strip(): the text kept as the elevation.
ElevationText(line) == Strip(Split(line, "UTC")[2])

\* line.split('Contact is go for:')[1].split('UTC')[0].strip()
DateTimeStr(line) == Strip(Split(Split(line, "Contact is go for:")[2], "UTC")[1])

GoRule(c, line) ==
    LET date_time_str == DateTimeStr(line)
        parsed_dt == DateutilParse(date_time_str)
    IN  IF parsed_dt = None
        THEN Result(c, "", <<[kind |-> "date_error", text |-> date_time_str]>>)
        ELSE LET c1 == [c EXCEPT !.date_time = Some([parsed_dt[1] EXCEPT !.tzinfo = "UTC"])]
             IN  IF Len(Split(line, "UTC")) < 2 THEN Result(c1, "IndexError", <<>>)
                 ELSE LET elevation_str == ElevationText(line)
                      IN  IF elevation_str # ""
                          THEN Result([c1 EXCEPT !.elevation = elevation_str], "", <<>>)
                          ELSE Result(c1, "", <<>>)

LivestreamRule(c, line) ==
    LET v == SecondPart(line, "at")
    IN  IF v = None THEN Result(c, "IndexError", <<>>)
        ELSE Result([c EXCEPT !.livestream = v[1]], "", <<>>)

MentorRule(c, line) ==
    LET v == SecondPart(line, "is")
    IN  IF v = None THEN Result(c, "IndexError", <<>>)
        ELSE Result([c EXCEPT !.mentor = v[1]], "", <<>>)

\* One iteration of the first loop over the lines of a section.
ParseLine(c, line) ==
    LET rule == RuleOf(line)
    IN  CASE rule = "via"        -> ViaRule(c, line)
          [] rule = "frequency"  -> FrequencyRule(c, line)
          [] rule = "crew"       -> CrewRule(c, line)
          [] rule = "go"         -> GoRule(c, line)
          [] rule = "livestream" -> LivestreamRule(c, line)
          [] rule = "mentor"     -> MentorRule(c, line)
          [] OTHER               -> Result(c, "", <<>>)

\* Whether the question pass skips the line as a heading.
IsQuestionsHeading(line) == Contains(line, "Proposed questions")

\* The second loop over the lines of a section: the questions it appends.
RECURSIVE ExtractQuestions(_, _, _)
ExtractQuestions(ls, i, questions_started) ==
    IF i > Len(ls) THEN <<>>
    ELSE IF IsQuestionsHeading(ls[i]) THEN ExtractQuestions(ls, i + 1, TRUE)
    ELSE IF /\ questions_started
            /\ Strip(ls[i]) # ""
            /\ ~StartsWith(ls[i], "===")
            /\ MatchesQuestionNumber(Strip(ls[i]))
         THEN <<Strip(ls[i])>> \o ExtractQuestions(ls, i + 1, questions_started)
         ELSE ExtractQuestions(ls, i + 1, questions_started)

\* Faulty variant of KeepsContact: every contact is appended.
KeepsContactAlways(c) == TRUE

\* if contact.school: the contact is appended to self.contacts.
KeepsContact(c) == c.school # ""

\* Faulty variant of ContactSections: the delimiter is one character short.
ContactSectionsShort(text) ==
    Split(text, "=====================================================================")

\* The delimiter of re.split in parse_contacts: 70 '=' characters.
Delimiter == "======================================================================"

\* contact_sections of parse_contacts.
ContactSections(text) == Split(text, Delimiter)

(***************************************************************************)
(* generate_wordpress_article.  The French text is written without its     *)
(* accents and the dash of the title as "-".                               *)
(***************************************************************************)
\* strftime('%A %d %B %Y') under the LC_TIME locale the constructor left.
LongDate(dt, lc_time) ==
    LET french == lc_time # "C"
        dayName == IF french THEN DayNamesFr[Weekday(dt.year, dt.month, dt.day) + 1]
                   ELSE DayNamesEn[Weekday(dt.year, dt.month, dt.day) + 1]
        monthName == IF french THEN MonthNamesFr[dt.month] ELSE MonthNamesEn[dt.month]
    IN  dayName \o " " \o Pad2(dt.day) \o " " \o monthName \o " " \o Pad4(dt.year)

generate_wordpress_article(c, lc_time) ==
    LET paris_time == ParisAstimezone(c.date_time[1])
        date_fr == Pad2(paris_time.day) \o "/" \o Pad2(paris_time.month) \o "/"
                   \o Pad4(paris_time.year)
        time_utc == Pad2(c.date_time[1].hour) \o ":" \o Pad2(c.date_time[1].minute)
        time_paris == Pad2(paris_time.hour) \o ":" \o Pad2(paris_time.minute)
        title == "Contact radioamateur du " \o date_fr \o " - " \o c.callsign
        intro == "Un contact radioamateur est prevu le "
                 \o Lower(LongDate(paris_time, lc_time)) \o " vers " \o time_utc
                 \o " UTC (" \o time_paris \o " heure de Paris).\n\n"
                 \o "Il aura lieu entre l'astronaute " \o c.astronaut \o " ("
                 \o c.astronaut_callsign \o ") et " \o c.school \o " en "
                 \o c.location \o ".\n\n"
                 \o "Le contact sera sur " \o c.frequency
                 \o " (+/-3 KHz de doppler) en FM etroite. Il sera "
                 \o c.contact_type \o " par la station " \o c.callsign
                 \o " et donc audible depuis la France.\n"
        live == IF c.livestream # ""
                THEN "\nUn livestream sera disponible sur : " \o c.livestream \o "\n"
                ELSE ""
        questions == Join(c.questions, "\n")
                     \o (IF c.questions = <<>> THEN "" ELSE "\n")
    IN  [title |-> title,
         content |-> intro \o live \o "\n<!-- more -->\n\nQuestions prevues :\n\n"
                     \o questions
                     \o "\nL'equipe ARISS se tient a votre disposition pour tout support relatif a l'ecoute de ce contact.\n\n73 et bonne ecoute",
         category |-> "Contact ARISS",
         status |-> "draft"]

(***************************************************************************)
(* The filter of the article loop in main.                                 *)
(***************************************************************************)
\* Faulty variant of OnTargetDate: the date compared is the Paris civil date.
OnTargetDateParis(date_time, target) == DateOf(ParisAstimezone(date_time)) = DateOf(target)

\* contact_date.date() != target_date.date() is false: the contact's calendar
\* date, read off its UTC date_time, is the target date.
OnTargetDate(date_time, target) ==
    DateOf([year |-> date_time.year, month |-> date_time.month, day |-> date_time.day])
        = DateOf(target)

\* Whether the loop body reaches generate_wordpress_article for the contact.
IsProcessed(c, target) ==
    /\ c.date_time # None
    /\ target # None => OnTargetDate(c.date_time[1], target[1])

\* Faulty variant of CountAfter: the count is taken before the filters.
CountAfterAlways(count, processed) == count + 1

\* contact_count after one contact of the loop.
CountAfter(count, processed) == IF processed THEN count + 1 ELSE count

(***************************************************************************)
(* The run of main().                                                      *)
(*   args      the parsed command line: date and url_newsletter are None   *)
(*             or a string, ariss_file is the path                         *)
(*   env       what the run finds outside: remote is the text at the URL   *)
(*             (None: the download fails), readable whether the file can   *)
(*             be read, locale the best LC_TIME locale setlocale accepts   *)
(*   file      the content of args.ariss_file (None: no such file)         *)
(*   origin    history: for each contact of contacts, the index in         *)
(*             contact_sections of the section it was parsed from          *)
(*   rendered  history: the indices in contacts of the contacts passed to  *)
(*             generate_wordpress_article, in call order                   *)
(***************************************************************************)
VARIABLES pc, args, env, file, target_date, text, raw_text, lc_time,
          contact_sections, si, lines, li, contact, contacts, origin,
          ci, contact_count, articles, rendered, stdout, exit_code

vars == <<pc, args, env, file, target_date, text, raw_text, lc_time,
          contact_sections, si, lines, li, contact, contacts, origin,
          ci, contact_count, articles, rendered, stdout, exit_code>>

Say(kind, txt) == [kind |-> kind, text |-> txt]

\* sys.exit(1) after printing an error.
Fail(msg) ==
    /\ stdout' = Append(stdout, Say("error", msg))
    /\ exit_code' = Some(1)
    /\ pc' = "exit"

\* main, lines 274-281: validate the date argument.
ValidateDate ==
    /\ pc = "main"
    /\ IF args.date # None /\ args.date[1] # ""
       THEN IF parse_date(args.date[1]) = None
            THEN /\ Fail("Le format de date doit etre JJ/MM/AAAA")
                 /\ UNCHANGED target_date
            ELSE /\ target_date' = parse_date(args.date[1])
                 /\ stdout' = Append(stdout, Say("search", args.date[1]))
                 /\ pc' = "obtain"
                 /\ UNCHANGED exit_code
       ELSE /\ pc' = "obtain"
            /\ UNCHANGED <<target_date, stdout, exit_code>>
    /\ UNCHANGED <<args, env, file, text, raw_text, lc_time, contact_sections, si,
                   lines, li, contact, contacts, origin, ci, contact_count, articles,
                   rendered>>

\* main, lines 285-307: download and save the newsletter when a URL is
\* given, else require the file; then read the file.
ObtainText ==
    /\ pc = "obtain"
    /\ LET withUrl == args.url_newsletter # None /\ args.url_newsletter[1] # ""
           saved == IF withUrl /\ env.remote # None THEN env.remote ELSE file
           notes == IF withUrl
                    THEN <<Say("download", args.url_newsletter[1])>>
                         \o (IF env.remote # None
                             THEN <<Say("saved", args.ariss_file)>> ELSE <<>>)
                    ELSE <<>>
       IN  IF withUrl /\ env.remote = None
           THEN /\ stdout' = stdout \o notes
                               \o <<Say("error", "Erreur lors du telechargement de la newsletter")>>
                /\ exit_code' = Some(1)
                /\ pc' = "exit"
                /\ UNCHANGED <<file, text>>
           ELSE IF ~withUrl /\ file = None
           THEN /\ Fail("Le fichier n'existe pas")
                /\ UNCHANGED <<file, text>>
           ELSE IF ~env.readable
           THEN /\ stdout' = stdout \o notes
                               \o <<Say("error", "Erreur lors de la lecture du fichier")>>
                /\ exit_code' = Some(1)
                /\ pc' = "exit"
                /\ file' = saved
                /\ UNCHANGED text
           ELSE /\ file' = saved
                /\ text' = saved[1]
                /\ stdout' = stdout \o notes
                /\ pc' = "construct"
                /\ UNCHANGED exit_code
    /\ UNCHANGED <<args, env, target_date, raw_text, lc_time, contact_sections, si,
                   lines, li, contact, contacts, origin, ci, contact_count, articles,
                   rendered>>

\* ArissArticleGenerator.__init__ up to the re.split of parse_contacts
\* (lines 81-95).
Construct ==
    /\ pc = "construct"
    /\ raw_text' = text
    /\ contacts' = <<>>
    /\ origin' = <<>>
    /\ lc_time' = IF env.locale = "none" THEN "C" ELSE env.locale
    /\ stdout' = IF env.locale = "none"
                 THEN Append(stdout, Say("warning", "French locale not available"))
                 ELSE stdout
    /\ contact_sections' = ContactSections(text)
    /\ si' = 1
    /\ pc' = "section"
    /\ UNCHANGED <<args, env, file, target_date, text, lines, li, contact,
                   ci, contact_count, articles, rendered, exit_code>>

\* parse_contacts, lines 97-102: the head of the section loop.  When the
\* sections are exhausted the constructor returns and main starts its loop
\* (line 312).
NextSection ==
    /\ pc = "section"
    /\ IF si > Len(contact_sections)
       THEN /\ pc' = "articles"
            /\ ci' = 1
            /\ contact_count' = 0
            /\ UNCHANGED <<si, lines, li, contact>>
       ELSE IF Strip(contact_sections[si]) = ""
       THEN /\ si' = si + 1
            /\ UNCHANGED <<pc, lines, li, contact, ci, contact_count>>
       ELSE /\ contact' = ArissContact
            /\ lines' = Split(Strip(contact_sections[si]), "\n")
            /\ li' = 1
            /\ pc' = "fields"
            /\ UNCHANGED <<si, ci, contact_count>>
    /\ UNCHANGED <<args, env, file, target_date, text, raw_text, lc_time,
                   contact_sections, contacts, origin, articles, rendered, stdout,
                   exit_code>>

\* parse_contacts, lines 104-152: one line of the field loop.  An exception
\* that leaves the loop leaves the constructor and is caught by main
\* (lines 346-348).
FieldLine ==
    /\ pc = "fields"
    /\ LET r == ParseLine(contact, lines[li])
       IN  /\ contact' = r.contact
           /\ li' = li + 1
           /\ IF r.exc # ""
              THEN /\ stdout' = stdout \o r.printed
                                  \o <<Say("error", "Erreur lors de la generation des articles")>>
                   /\ exit_code' = Some(1)
                   /\ pc' = "exit"
              ELSE /\ stdout' = stdout \o r.printed
                   /\ pc' = IF li = Len(lines) THEN "questions" ELSE "fields"
                   /\ UNCHANGED exit_code
    /\ UNCHANGED <<args, env, file, target_date, text, raw_text, lc_time,
                   contact_sections, si, lines, contacts, origin, ci, contact_count,
                   articles, rendered>>

\* parse_contacts, lines 154-165: the question pass and the append.
Questions ==
    /\ pc = "questions"
    /\ contact' = [contact EXCEPT !.questions = ExtractQuestions(lines, 1, FALSE)]
    /\ contacts' = IF KeepsContact(contact') THEN Append(contacts, contact') ELSE contacts
    /\ origin' = IF KeepsContact(contact') THEN Append(origin, si) ELSE origin
    /\ si' = si + 1
    /\ pc' = "section"
    /\ UNCHANGED <<args, env, file, target_date, text, raw_text, lc_time,
                   contact_sections, lines, li, ci, contact_count, articles,
                   rendered, stdout, exit_code>>

\* main, lines 313-332: one contact of the article loop.
ProcessContact ==
    /\ pc = "articles"
    /\ ci <= Len(contacts)
    /\ LET c == contacts[ci]
           processed == IsProcessed(c, target_date)
       IN  /\ contact_count' = CountAfter(contact_count, processed)
           /\ IF processed
              THEN LET article == generate_wordpress_article(c, lc_time)
                   IN  /\ articles' = Append(articles, article)
                       /\ rendered' = Append(rendered, ci)
                       /\ stdout' = Append(stdout, Say("article", article.title))
              ELSE UNCHANGED <<articles, rendered, stdout>>
    /\ ci' = ci + 1
    /\ UNCHANGED <<pc, args, env, file, target_date, text, raw_text, lc_time,
                   contact_sections, si, lines, li, contact, contacts, origin,
                   exit_code>>

\* main, lines 334-344: the count, and the notice when it is zero.
Report ==
    /\ pc = "articles"
    /\ ci > Len(contacts)
    /\ stdout' = stdout
                 \o <<Say(IF target_date # None THEN "count_for_date" ELSE "count_total",
                          NatToStr(contact_count))>>
                 \o (IF contact_count = 0
                     THEN <<Say("none", IF target_date # None
                                        THEN "Aucun contact trouve pour la date"
                                        ELSE "Aucun contact trouve dans le fichier")>>
                     ELSE <<>>)
    /\ exit_code' = Some(0)
    /\ pc' = "exit"
    /\ UNCHANGED <<args, env, file, target_date, text, raw_text, lc_time,
                   contact_sections, si, lines, li, contact, contacts, origin, ci,
                   contact_count, articles, rendered>>

Next ==
    \/ ValidateDate
    \/ ObtainText
    \/ Construct
    \/ NextSection
    \/ FieldLine
    \/ Questions
    \/ ProcessContact
    \/ Report

(***************************************************************************)
(* Newsletter lines.                                                       *)
(***************************************************************************)
SchoolA == "Lycee A, Paris, direct via F1ABC"

SchoolB == "School B, Rome, telebridge via IK1SLD"

SchoolTwoParts == "School C, direct via K6DUE"

GoExample == "Contact is go for: 25 March 2024 18:30 UTC, max elevation 45 degrees"

GoLate == "Contact is go for: 25 March 2024 23:30 UTC 12 deg"

GoNext == "Contact is go for: 26 March 2024 09:05 UTC 33 deg"

GoFrench == "Contact is go for: 25 Mars 2024 18:30 UTC 10 deg"

GoNoUTC == "Contact is go for: 25 March 2024 18:30"

Freq == "The downlink frequency is presently scheduled to be 145.800 MHz"

FreqNoBe == "Downlink frequency: 145.800 MHz"

FreqTwice == "The frequency will be 145.800 MHz, to be confirmed"

CrewDon == "The scheduled crewmember is Don Pettit KD5MDT"

CrewChris == "The scheduled crewmember is Chris Cassidy KF5KDR"

CrewMononym == "The scheduled crewmember is TBD"

Livestream == "Watch for the Livestream at https://youtu.be/abc"

MentorSteve == "The ARISS mentor is Steve McFarlane VE3TBD"

MentorPaolis == "The ARISS mentor is Francesco De Paolis IK0WGF"

Heading == "Proposed questions generated by the students:"

Q1 == "1. What is it like in space?"

Q2 == "  2. How do you sleep?"

QAboutQuestions == "3. Who chose the Proposed questions?"

QNoPeriod == "4 Over"

Rule == "==="

Blank == ""

Title == "ARISS News Release"

(***************************************************************************)
(* Inputs.  A block is a sequence of lines; a text is blocks separated by  *)
(* the newsletter's delimiter line.                                        *)
(***************************************************************************)
MaxSections == 3

MaxLines == 3

SeqsUpTo(S, n) == UNION {[1..k -> S] : k \in 1..n}

BlockText(block) == Join(block, "\n")

TextOf(blocks) ==
    Join([k \in 1..Len(blocks) |-> BlockText(blocks[k])], "\n" \o Delimiter \o "\n")

RunBlocks ==
    { <<SchoolA, GoNext, Freq, CrewDon, Heading, Q1, Q2>>,
      <<SchoolB, GoLate, Livestream>>,
      <<Title, GoExample>>,
      <<SchoolB, GoFrench>>,
      <<SchoolA, GoExample, FreqNoBe>> }

RunTexts == {TextOf(bs) : bs \in SeqsUpTo(RunBlocks, MaxSections)}

DateArgs == {None, Some(""), Some("25/03/2024"), Some("26/03/2024"), Some("2024-03-25")}

NewsletterUrl == "https://www.amsat.org/amsat/ariss/news/arissnews.txt"

\* A setup: the URL argument and what the run finds outside.
NominalSetup ==
    [url |-> None, remote_ok |-> FALSE, file_exists |-> TRUE, readable |-> TRUE,
     locale |-> "fr_FR.UTF-8"]

AllSetups ==
    [url : {None, Some(NewsletterUrl)}, remote_ok : BOOLEAN, file_exists : BOOLEAN,
     readable : BOOLEAN, locale : {"fr_FR.UTF-8", "fr_FR", "none"}]

\* The state main() starts in, for a text, a date argument and a setup.
InitWith(texts, dates, setups) ==
    /\ \E t \in texts, d \in dates, s \in setups :
          /\ args = [date |-> d, url_newsletter |-> s.url, ariss_file |-> "arissnews.txt"]
          /\ env = [remote |-> IF s.remote_ok THEN Some(t) ELSE None,
                    readable |-> s.readable, locale |-> s.locale]
          /\ file = IF s.file_exists THEN Some(t) ELSE None
    /\ pc = "main"
    /\ target_date = None
    /\ text = ""
    /\ raw_text = ""
    /\ lc_time = "C"
    /\ contact_sections = <<>>
    /\ si = 0
    /\ lines = <<>>
    /\ li = 0
    /\ contact = ArissContact
    /\ contacts = <<>>
    /\ origin = <<>>
    /\ ci = 0
    /\ contact_count = 0
    /\ articles = <<>>
    /\ rendered = <<>>
    /\ stdout = <<>>
    /\ exit_code = None

FieldLines ==
    {SchoolA, SchoolB, SchoolTwoParts, GoExample, GoFrench, GoNoUTC, Freq, FreqNoBe}

WordLines ==
    {SchoolA, Freq, FreqTwice, CrewDon, CrewChris, CrewMononym, Livestream,
     MentorSteve, MentorPaolis}

QuestionLines == {SchoolA, Heading, Q1, Q2, QAboutQuestions, QNoPeriod, Rule, Blank}

\* The texts of one block of up to MaxLines lines of a pool.
OneBlockTexts(pool) == {TextOf(<<b>>) : b \in SeqsUpTo(pool, MaxLines)}

\* A text whose run fires every step of main.
ReferenceText == TextOf(<<<<SchoolB, GoLate, Livestream>>>>)

MaxPieces == 3

ShortRule == "=========="

LongRule == Delimiter \o "="

\* Pieces a text is put together from, one per line: blocks, the delimiter
\* line, '=' lines of other lengths, a blank line.
SplitPieces ==
    {BlockText(<<SchoolA, GoExample>>), SchoolB, Delimiter, ShortRule, LongRule, "  "}

PieceTexts == {Join(ps, "\n") : ps \in SeqsUpTo(SplitPieces, MaxPieces)}

\* Runs over texts of up to MaxSections blocks, with and without a date
\* filter; every setup on one text.
Init ==
    \/ InitWith(RunTexts, DateArgs, {NominalSetup})
    \/ InitWith({ReferenceText}, {None}, AllSetups)

Spec == Init /\ [][Next]_vars

\* Runs over one block of school, date and frequency lines.
InitFields == InitWith(OneBlockTexts(FieldLines) \cup {ReferenceText}, {None}, {NominalSetup})

SpecFields == InitFields /\ [][Next]_vars

\* Runs over one block of frequency, crewmember, livestream and mentor lines.
InitWords == InitWith(OneBlockTexts(WordLines) \cup {ReferenceText}, {None}, {NominalSetup})

SpecWords == InitWords /\ [][Next]_vars

\* Runs over one block of question lines.
InitQuestions ==
    InitWith(OneBlockTexts(QuestionLines) \cup {ReferenceText}, {None}, {NominalSetup})

SpecQuestions == InitQuestions /\ [][Next]_vars

\* Runs over texts of up to MaxPieces pieces.
InitSplit == InitWith(PieceTexts \cup {ReferenceText}, {None}, {NominalSetup})

SpecSplit == InitSplit /\ [][Next]_vars

(***************************************************************************)
(* Properties.                                                             *)
(***************************************************************************)
RangeOf(seq) == {seq[i] : i \in DOMAIN seq}

HasEvent(kind) == \E i \in DOMAIN stdout : stdout[i].kind = kind

\* The date of a datetime written as the -d argument writes it, JJ/MM/AAAA.
AsDateArg(dt) == Pad2(dt.day) \o "/" \o Pad2(dt.month) \o "/" \o Pad4(dt.year)

\* A date filter is supplied: -d with a non-empty value.
FilterGiven == args.date # None /\ args.date[1] # ""

\* A contact main's loop has to render: it has a school and a scheduled
\* instant, and the instant's UTC calendar date is the -d date when one is given.
Eligible(c) ==
    /\ c.school # ""
    /\ c.date_time # None
    /\ FilterGiven => AsDateArg(c.date_time[1]) = args.date[1]

\* C1: every contact passed to generate_wordpress_article has a non-empty
\* school and a set date_time; no contact with an empty school is ever in
\* generator.contacts and no contact without date_time is ever rendered.
C1_OnlyEligibleRendered ==
    /\ \A k \in DOMAIN contacts : contacts[k].school # ""
    /\ \A j \in DOMAIN rendered :
          /\ rendered[j] \in DOMAIN contacts
          /\ contacts[rendered[j]].school # ""
          /\ contacts[rendered[j]].date_time # None

\* A finished run that rendered a contact, kept a contact without date_time
\* unrendered and dropped a block that had no school line.
C1_Witness ==
    /\ pc = "exit" /\ exit_code = Some(0)
    /\ rendered # <<>>
    /\ \E k \in DOMAIN contacts : contacts[k].date_time = None
    /\ \E i \in DOMAIN contact_sections :
          Strip(contact_sections[i]) # "" /\ i \notin RangeOf(origin)

\* C4: once the loop has passed a contact that has a school and a scheduled
\* instant, the contact is rendered exactly when no -d date was given or the
\* UTC calendar date of its instant is the -d date.
C4_FilterOnUtcDate ==
    pc \in {"articles", "exit"} =>
        \A k \in DOMAIN contacts :
            (k < ci /\ contacts[k].school # "" /\ contacts[k].date_time # None) =>
                (k \in RangeOf(rendered) <=>
                    (~FilterGiven \/ AsDateArg(contacts[k].date_time[1]) = args.date[1]))

\* A finished run with a -d date that rendered one dated contact and left
\* another dated contact out.
C4_Witness ==
    /\ pc = "exit" /\ exit_code = Some(0) /\ FilterGiven
    /\ \E k \in DOMAIN contacts : k \in RangeOf(rendered)
    /\ \E k \in DOMAIN contacts :
          contacts[k].date_time # None /\ k \notin RangeOf(rendered)

HasLastLine == pc \in {"fields", "questions", "exit"} /\ li > 1 /\ li - 1 <= Len(lines)

LastLine == lines[li - 1]

\* A line whose split yields fewer parts than its rule indexes: a via line of
\* exactly two comma-separated segments, a frequency line without "be", a
\* go line without "UTC".
ShortSplit(line) ==
    \/ RuleOf(line) = "via" /\ Len(Split(line, ",")) = 2
    \/ RuleOf(line) = "frequency" /\ ~Contains(line, "be")
    \/ RuleOf(line) = "go" /\ ~Contains(line, "UTC")

\* C2: a line whose split yields fewer parts than expected never raises to
\* the caller: after it the run has not failed and goes on with the block.
C2_ShortSplitNeverRaises ==
    (HasLastLine /\ ShortSplit(LastLine)) =>
        /\ exit_code # Some(1)
        /\ ~HasEvent("error")
        /\ pc \in {"fields", "questions"}

\* A go line whose date text dateutil does not parse.
FailedGo(line) == RuleOf(line) = "go" /\ DateutilParse(DateTimeStr(line)) = None

\* The block being parsed, or just parsed, has a go line whose date failed.
BlockHadFailedGo ==
    /\ pc \in {"fields", "questions", "section", "exit"}
    /\ \E k \in DOMAIN lines : k < li /\ FailedGo(lines[k])

\* C3: once the date text of a go line of the block has failed to parse, the
\* failure is logged, the contact's date_time is unset, the block is not
\* aborted, the contact is appended when its school is non-empty and no
\* contact without date_time is rendered.
C3_DateFailureKeepsBlock ==
    BlockHadFailedGo =>
        /\ HasEvent("date_error")
        /\ contact.date_time = None
        /\ exit_code # Some(1)
        /\ (pc = "section" /\ contact.school # "") =>
              (contacts # <<>> /\ contacts[Len(contacts)] = contact)
        /\ \A j \in DOMAIN rendered : contacts[rendered[j]].date_time # None

\* The text of the line after the first occurrence of word, trimmed.
AfterFirst(line, word) == Strip(From(line, Find(line, word) + Len(word)))

\* The tokens of a text between single spaces.
LastToken(t) ==
    LET spaces == {i \in 1..Len(t) : Char(t, i) = " "}
    IN  From(t, (CHOOSE i \in spaces : \A j \in spaces : j <= i) + 1)

LeadingTokens(t) ==
    LET spaces == {i \in 1..Len(t) : Char(t, i) = " "}
    IN  SubSeq(t, 1, (CHOOSE i \in spaces : \A j \in spaces : j <= i) - 1)

\* C5: the frequency, crewmember, livestream and mentor rules store the whole
\* text after the first occurrence of their split word, trimmed; the
\* crewmember rule takes the last space-delimited token of it as the callsign
\* and the tokens before it as the name.
C5_WholeTextAfterFirstWord ==
    (HasLastLine /\ pc # "exit") =>
        /\ (RuleOf(LastLine) = "frequency" /\ Contains(LastLine, "be")) =>
              contact.frequency = AfterFirst(LastLine, "be")
        /\ (RuleOf(LastLine) = "livestream") =>
              contact.livestream = AfterFirst(LastLine, "at")
        /\ (RuleOf(LastLine) = "mentor") =>
              contact.mentor = AfterFirst(LastLine, "is")
        /\ (RuleOf(LastLine) = "crew" /\ Contains(LastLine, "is")) =>
              LET crew == AfterFirst(LastLine, "is")
              IN  IF Contains(crew, " ")
                  THEN /\ contact.astronaut_callsign = LastToken(crew)
                       /\ contact.astronaut = LeadingTokens(crew)
                  ELSE contact.astronaut = crew

UtcInstant(y, mo, d, h, mi, sec) ==
    [year |-> y, month |-> mo, day |-> d, hour |-> h, minute |-> mi, second |-> sec,
     tzinfo |-> "UTC"]

\* C6 as stated: after the example line the scheduled instant is
\* 2024-03-25T18:30:00 UTC and the elevation is "max elevation 45 degrees".
C6_ExampleElevationWithoutComma ==
    (HasLastLine /\ LastLine = GoExample) =>
        /\ contact.date_time = Some(UtcInstant(2024, 3, 25, 18, 30, 0))
        /\ contact.elevation = "max elevation 45 degrees"

\* C6 amended: after the example line the scheduled instant is
\* 2024-03-25T18:30:00 UTC, the wall-clock value tagged UTC unchanged, and the
\* elevation is ", max elevation 45 degrees": the text after "UTC" trimmed of
\* whitespace only, its leading comma kept.
C6_ExampleInstantAndElevation ==
    (HasLastLine /\ LastLine = GoExample) =>
        /\ contact.date_time = Some(UtcInstant(2024, 3, 25, 18, 30, 0))
        /\ contact.elevation = ", max elevation 45 degrees"

\* The example line has been processed in a block that has a school.
C6_Witness ==
    /\ pc = "questions" /\ li > 1 /\ LastLine = GoExample
    /\ contact.school # ""

\* The questions the specification describes: the lines after the first line that
\* contains "Proposed questions" that are non-blank, do not start with "==="
\* and, trimmed, start with digits and a period; each trimmed, in order.
RECURSIVE QuestionsAfter(_, _)
QuestionsAfter(ls, k) ==
    IF k > Len(ls) THEN <<>>
    ELSE (IF /\ Strip(ls[k]) # ""
             /\ ~StartsWith(ls[k], "===")
             /\ MatchesQuestionNumber(Strip(ls[k]))
          THEN <<Strip(ls[k])>> ELSE <<>>) \o QuestionsAfter(ls, k + 1)

ClaimedQuestions(ls) ==
    LET heads == {k \in DOMAIN ls : Contains(ls[k], "Proposed questions")}
    IN  IF heads = {} THEN <<>> ELSE QuestionsAfter(ls, Least(heads) + 1)

\* C7: the questions of a parsed block are exactly the numbered lines after
\* its first "Proposed questions" line, trimmed, in order; none when the
\* block has no such line.
C7_QuestionsAfterHeading ==
    (pc = "section" /\ lines # <<>>) => contact.questions = ClaimedQuestions(lines)

\* A line made of one or more '=' and nothing else.
IsRuleLine(line) == Len(line) >= 1 /\ \A i \in 1..Len(line) : Char(line, i) = "="

\* The texts between the lines of ls that are '=' lines, from line k on, acc
\* being the lines gathered since the last '=' line.
RECURSIVE SegmentsFrom(_, _, _)
SegmentsFrom(ls, k, acc) ==
    IF k > Len(ls) THEN <<Join(acc, "\n")>>
    ELSE IF IsRuleLine(ls[k]) THEN <<Join(acc, "\n")>> \o SegmentsFrom(ls, k + 1, <<>>)
    ELSE SegmentsFrom(ls, k + 1, Append(acc, ls[k]))

IsNonBlank(t) == Strip(t) # ""

\* The blocks of a list of segments: the non-blank ones, trimmed, in order.
BlocksOf(segments) ==
    LET kept == SelectSeq(segments, IsNonBlank)
    IN  [k \in DOMAIN kept |-> Strip(kept[k])]

DelimiterLength == 70

RECURSIVE Repeat(_, _)
Repeat(c, n) == IF n = 0 THEN "" ELSE c \o Repeat(c, n - 1)

FirstComma(line) == Find(line, ",")

SecondComma(line) == FindFrom(line, ",", FirstComma(line) + 1)

ThirdPart(line) == Strip(From(line, SecondComma(line) + 1))

\* A via line of exactly three comma-separated parts, none blank, whose third
\* part is "<type> via <callsign>" with " via " once.
WellFormedVia(line) ==
    /\ RuleOf(line) = "via"
    /\ FirstComma(line) # 0 /\ SecondComma(line) # 0
    /\ FindFrom(line, ",", SecondComma(line) + 1) = 0
    /\ Strip(SubSeq(line, 1, FirstComma(line) - 1)) # ""
    /\ Strip(SubSeq(line, FirstComma(line) + 1, SecondComma(line) - 1)) # ""
    /\ LET third == ThirdPart(line)
           v == Find(third, " via ")
       IN  /\ v # 0
           /\ FindFrom(third, " via ", v + 1) = 0
           /\ Strip(SubSeq(third, 1, v - 1)) # ""
           /\ Strip(From(third, v + 5)) # ""

\* The contact holds the four fields of the via line.
HoldsViaFields(c, line) ==
    LET third == ThirdPart(line)
        v == Find(third, " via ")
    IN  /\ c.school = Strip(SubSeq(line, 1, FirstComma(line) - 1))
        /\ c.location = Strip(SubSeq(line, FirstComma(line) + 1, SecondComma(line) - 1))
        /\ c.contact_type = Strip(SubSeq(third, 1, v - 1))
        /\ c.callsign = Strip(From(third, v + 5))
        /\ c.school # "" /\ c.location # "" /\ c.contact_type # "" /\ c.callsign # ""

\* C9 as stated: the contact produced from a block holds the fields of every
\* well-formed via line of the block.
C9_EveryViaLineKept ==
    (pc = "section" /\ lines # <<>> /\ KeepsContact(contact)) =>
        \A k \in DOMAIN lines : WellFormedVia(lines[k]) => HoldsViaFields(contact, lines[k])

\* C9 amended: right after a well-formed via line is processed the contact
\* holds its four fields, all non-empty; the contact produced from the block
\* holds the fields of such a line when no later line of the block is a
\* "direct via" or "telebridge via" line.
C9_LastViaLineKept ==
    /\ (HasLastLine /\ pc # "exit" /\ WellFormedVia(LastLine)) =>
          HoldsViaFields(contact, LastLine)
    /\ (pc = "section" /\ lines # <<>>) =>
          \A k \in DOMAIN lines :
              (WellFormedVia(lines[k]) /\ \A m \in DOMAIN lines : m > k => RuleOf(lines[m]) # "via")
                  => (KeepsContact(contact) /\ contacts[Len(contacts)] = contact
                      /\ HoldsViaFields(contact, lines[k]))

\* A block with two different well-formed via lines and a later line has
\* been parsed and its contact appended.
C9_Witness ==
    /\ pc = "section" /\ Len(lines) = 3 /\ contacts # <<>>
    /\ WellFormedVia(lines[1]) /\ WellFormedVia(lines[2]) /\ lines[1] # lines[2]
    /\ RuleOf(lines[3]) # "via"

====
